---- MODULE Spec2Model ----
(***************************************************************************)
(* Model of source/store.go: the SingletonClientGenerator (a client built  *)
(* at most once behind sync.Once), ByNames / BuildWithConfig (resolution   *)
(* of source names into adapters) and NewKubeClient.                       *)
(*                                                                         *)
(* Callers are goroutines; each runs calls to p.KubeClient() or to         *)
(* ByNames(p, names, cfg) on ONE shared SingletonClientGenerator.  A step  *)
(* of the model is one statement (or one run of statements that touch only *)
(* the caller's locals) of the code.                                       *)
(***************************************************************************)
EXTENDS Integers, Sequences, FiniteSets, TLC

----------------------------------------------------------------------------
(* Bounds *)

\* number of goroutines that call into the one provider
NumProcs == 2
\* longest name list handed to ByNames
MaxNames == 2
\* number of calls (KubeClient or ByNames) started in one behaviour
MaxCalls == 2

Procs == 1..NumProcs
NoProc == 0
\* ByNames shares nothing with other goroutines but the ClientGenerator it
\* is handed, so one goroutine runs the ByNames calls and every goroutine
\* (this one too) may call p.KubeClient() on the same generator
Resolver == 1

----------------------------------------------------------------------------
(* Values *)

\* the names BuildWithConfig switches on, and one it does not know
KnownNames == {"ingress-nginx", "ingress-gce"}
UnknownName == "not-a-real-source"
Names == KnownNames \cup {UnknownName}

Namespaces == {"prod", "dev"}

\* kubernetes.Interface values: the zero interface, the interface holding the
\* nil *Clientset that NewKubeClient returns with an error, and a clientset
\* (id = ordinal of the NewKubeClient execution that built it)
NilClient == [tag |-> "nil", id |-> 0]
NilClientset == [tag |-> "nilClientset", id |-> 0]
Clientset(n) == [tag |-> "clientset", id |-> n]

\* error values
NoErr == [type |-> "nil", name |-> "", cause |-> ""]
\* the two failures NewKubeClient returns: from BuildConfigFromFlags and
\* from kubernetes.NewForConfig
ConfigErr == [type |-> "connection", name |-> "", cause |-> "BuildConfigFromFlags"]
ClientErr == [type |-> "connection", name |-> "", cause |-> "NewForConfig"]
\* what an adapter constructor returns when it fails: its own error value
CtorCauses == {"constructor-failed"}
CtorErr(c) == [type |-> "constructor", name |-> "", cause |-> c]

\* Source values: nil, and an adapter remembering what built it
NilSource == [ctor |-> "nil", client |-> NilClient, namespace |-> "", seq |-> 0]
Adapter(ctor, client, ns, seq) ==
    [ctor |-> ctor, client |-> client, namespace |-> ns, seq |-> seq]

\* []Source values: the nil slice and a (possibly empty) non-nil slice
NilSlice == [isNil |-> TRUE, items |-> <<>>]
Slice(items) == [isNil |-> FALSE, items |-> items]

RECURSIVE SeqsUpTo(_, _)
SeqsUpTo(S, n) ==
    IF n = 0 THEN {<<>>}
    ELSE LET shorter == SeqsUpTo(S, n - 1)
         IN  shorter \cup {Append(s, x) : s \in {t \in shorter : Len(t) = n - 1}, x \in S}

NameLists == SeqsUpTo(Names, MaxNames)

\* the default credential file (clientcmd.RecommendedHomeFile) and an
\* explicitly configured one
RecommendedHomeFile == "~/.kube/config"
ExplicitFile == "/etc/kubeconfig"
KubeConfigs == {"", ExplicitFile}
Files == {RecommendedHomeFile, ExplicitFile}

----------------------------------------------------------------------------
(* State *)

VARIABLES
    KubeConfig,   \* p.KubeConfig
    files,        \* the credential files that exist on disk
    cfg,          \* the shared Config: cfg.Namespace
    client,       \* p.client
    done,         \* p.Once: the done flag
    m,            \* p.Once: the mutex (its holder, NoProc when free)
    newCalls,     \* number of NewKubeClient executions started
    attempts,     \* the NewKubeClient executions that returned, in order
    calls,        \* number of calls started so far
    pc,           \* where each goroutine is
    op,           \* the call each goroutine is in or has last finished
    names,        \* ByNames: the names argument
    idx,          \* ByNames: position of the range loop (1-based)
    sources,      \* ByNames: the sources slice built so far
    err,          \* KubeClient: the local variable err
    kc,           \* BuildWithConfig: what p.KubeClient() returned
    ret,          \* what the goroutine's last finished call returned
    trace         \* ByNames: lookups, KubeClient calls and constructor calls

provider == <<KubeConfig, files, cfg, client, done, m, newCalls, attempts>>
locals == <<op, names, idx, sources, err, kc, ret, trace>>
vars == <<KubeConfig, files, cfg, client, done, m, newCalls, attempts, calls, pc,
          op, names, idx, sources, err, kc, ret, trace>>

NoReturn == [op |-> "none", client |-> NilClient, err |-> NoErr, list |-> NilSlice]
NoKC == [set |-> FALSE, client |-> NilClient, err |-> NoErr]
\* an entry of trace: what was done for the name at position pos, the client
\* and namespace it was done with and the error it ended with
Event(ev, pos, name, c, n, e) ==
    [ev |-> ev, pos |-> pos, name |-> name, client |-> c, namespace |-> n, err |-> e]

Init ==
    /\ KubeConfig \in KubeConfigs
    /\ files \in SUBSET Files
    /\ cfg \in Namespaces
    /\ client = NilClient
    /\ done = FALSE
    /\ m = NoProc
    /\ newCalls = 0
    /\ attempts = <<>>
    /\ calls = 0
    /\ pc = [p \in Procs |-> "idle"]
    /\ op = [p \in Procs |-> "none"]
    /\ names = [p \in Procs |-> <<>>]
    /\ idx = [p \in Procs |-> 0]
    /\ sources = [p \in Procs |-> <<>>]
    /\ err = [p \in Procs |-> NoErr]
    /\ kc = [p \in Procs |-> NoKC]
    /\ ret = [p \in Procs |-> NoReturn]
    /\ trace = [p \in Procs |-> <<>>]

----------------------------------------------------------------------------
(* NewKubeClient *)

\* lines 81-85 falling back to the default file when the given one is missing
ResolveWithFallback(kubeConfig, onDisk) ==
    IF (kubeConfig = "" \/ kubeConfig \notin onDisk) /\ RecommendedHomeFile \in onDisk
    THEN RecommendedHomeFile
    ELSE kubeConfig

\* lines 81-85 preferring the default file, when it exists, to the given one
ResolveDefaultFirst(kubeConfig, onDisk) ==
    IF RecommendedHomeFile \in onDisk THEN RecommendedHomeFile ELSE kubeConfig

\* lines 81-85: the credential path handed to BuildConfigFromFlags
ResolveKubeConfig(kubeConfig, onDisk) ==
    IF kubeConfig = ""
    THEN IF RecommendedHomeFile \in onDisk THEN RecommendedHomeFile ELSE ""
    ELSE kubeConfig

\* line 82: os.Stat is called only inside the kubeConfig == "" branch
ProbesDefault(kubeConfig) == kubeConfig = ""

\* line 87: clientcmd.BuildConfigFromFlags fails on a path that names no
\* file; otherwise it succeeds or fails with the file's (or the ambient
\* configuration's) content, which is the input `usable`
BuildConfigFromFlags(path, onDisk, usable) ==
    IF path # "" /\ path \notin onDisk THEN FALSE ELSE usable

\* lines 80-109; n is the ordinal of this execution, usable and connects
\* the behaviour of the two library calls
NewKubeClient(kubeConfig, onDisk, usable, connects, n) ==
    LET path == ResolveKubeConfig(kubeConfig, onDisk)
        out(c, e) == [given |-> kubeConfig, probed |-> ProbesDefault(kubeConfig),
                      path |-> path, client |-> c, err |-> e]
    IN  IF ~BuildConfigFromFlags(path, onDisk, usable) THEN out(NilClientset, ConfigErr)
        ELSE IF ~connects THEN out(NilClientset, ClientErr)
        ELSE out(Clientset(n), NoErr)

----------------------------------------------------------------------------
(* SingletonClientGenerator.KubeClient *)

\* line 37 and the fast path of Once.Do (line 38): err is nil; when the
\* done flag is set, f is not run
KubeClientEnter(p) ==
    /\ pc[p] = "KubeClient"
    /\ err' = [err EXCEPT ![p] = NoErr]
    /\ pc' = [pc EXCEPT ![p] = IF done THEN "KubeClient.return" ELSE "Once.lock"]
    /\ UNCHANGED <<provider, calls, op, names, idx, sources, kc, ret, trace>>

\* Once.Do with a lock that excludes nobody
OnceLockNoExclusion(p) ==
    /\ pc[p] = "Once.lock"
    /\ m' = p
    /\ pc' = [pc EXCEPT ![p] = "Once.check"]
    /\ UNCHANGED <<KubeConfig, files, cfg, client, done, newCalls, attempts, calls, locals>>

\* Once.Do, slow path: m.Lock()
OnceLock(p) ==
    /\ pc[p] = "Once.lock"
    /\ m = NoProc
    /\ m' = p
    /\ pc' = [pc EXCEPT ![p] = "Once.check"]
    /\ UNCHANGED <<KubeConfig, files, cfg, client, done, newCalls, attempts, calls, locals>>

\* Once.Do, slow path, done already set: nothing to run, m.Unlock()
OnceSkip(p) ==
    /\ pc[p] = "Once.check"
    /\ done
    /\ m' = NoProc
    /\ pc' = [pc EXCEPT ![p] = "KubeClient.return"]
    /\ UNCHANGED <<KubeConfig, files, cfg, client, done, newCalls, attempts, calls, locals>>

\* a once-guard that sets its done flag before it calls f
OnceRunStoreFirst(p) ==
    /\ pc[p] = "Once.check"
    /\ ~done
    /\ done' = TRUE
    /\ newCalls' = newCalls + 1
    /\ pc' = [pc EXCEPT ![p] = "NewKubeClient"]
    /\ UNCHANGED <<KubeConfig, files, cfg, client, m, attempts, calls, locals>>

\* Once.Do, slow path, done not set: f is called, NewKubeClient starts
OnceRun(p) ==
    /\ pc[p] = "Once.check"
    /\ ~done
    /\ newCalls' = newCalls + 1
    /\ pc' = [pc EXCEPT ![p] = "NewKubeClient"]
    /\ UNCHANGED <<KubeConfig, files, cfg, client, done, m, attempts, calls, locals>>

\* line 39 written `client, err := NewKubeClient(...)`: the result goes to
\* a variable of the closure and p.client keeps its zero value
AssignShadowed(p) ==
    /\ pc[p] = "NewKubeClient"
    /\ \E usable \in BOOLEAN, connects \in BOOLEAN :
          LET r == NewKubeClient(KubeConfig, files, usable, connects, newCalls)
          IN  /\ err' = [err EXCEPT ![p] = r.err]
              /\ attempts' = Append(attempts, r)
    /\ pc' = [pc EXCEPT ![p] = "Once.store"]
    /\ UNCHANGED <<KubeConfig, files, cfg, client, done, m, newCalls, calls,
                   op, names, idx, sources, kc, ret, trace>>

\* line 39: NewKubeClient returns and f assigns p.client and err
AssignClient(p) ==
    /\ pc[p] = "NewKubeClient"
    /\ \E usable \in BOOLEAN, connects \in BOOLEAN :
          LET r == NewKubeClient(KubeConfig, files, usable, connects, newCalls)
          IN  /\ client' = r.client
              /\ err' = [err EXCEPT ![p] = r.err]
              /\ attempts' = Append(attempts, r)
    /\ pc' = [pc EXCEPT ![p] = "Once.store"]
    /\ UNCHANGED <<KubeConfig, files, cfg, done, m, newCalls, calls,
                   op, names, idx, sources, kc, ret, trace>>

\* a once-guard that marks itself done only when the attempt succeeded, so
\* that a failed provider tries again on the next call
OnceStoreOnSuccess(p) ==
    /\ pc[p] = "Once.store"
    /\ done' = (err[p] = NoErr)
    /\ pc' = [pc EXCEPT ![p] = "Once.unlock"]
    /\ UNCHANGED <<KubeConfig, files, cfg, client, m, newCalls, attempts, calls, locals>>

\* Once.Do: the deferred done.Store(true) ...
OnceStore(p) ==
    /\ pc[p] = "Once.store"
    /\ done' = TRUE
    /\ pc' = [pc EXCEPT ![p] = "Once.unlock"]
    /\ UNCHANGED <<KubeConfig, files, cfg, client, m, newCalls, attempts, calls, locals>>

\* a once-guard that never releases its mutex after running f
OnceUnlockForgotten(p) ==
    /\ pc[p] = "Once.unlock"
    /\ pc' = [pc EXCEPT ![p] = "KubeClient.return"]
    /\ UNCHANGED <<provider, calls, locals>>

\* ... and the deferred m.Unlock()
OnceUnlock(p) ==
    /\ pc[p] = "Once.unlock"
    /\ m' = NoProc
    /\ pc' = [pc EXCEPT ![p] = "KubeClient.return"]
    /\ UNCHANGED <<KubeConfig, files, cfg, client, done, newCalls, attempts, calls, locals>>

\* line 41: return p.client, err
KubeClientResult(pclient, e) == [set |-> TRUE, client |-> pclient, err |-> e]

KubeClientReturn(p) ==
    /\ pc[p] = "KubeClient.return"
    /\ LET r == KubeClientResult(client, err[p])
       IN  IF op[p] = "KubeClient"
           THEN /\ ret' = [ret EXCEPT ![p] = [op |-> "KubeClient", client |-> r.client,
                                              err |-> r.err, list |-> NilSlice]]
                /\ pc' = [pc EXCEPT ![p] = "idle"]
                /\ kc' = kc
           ELSE /\ kc' = [kc EXCEPT ![p] = r]
                /\ pc' = [pc EXCEPT ![p] = "BuildWithConfig.client"]
                /\ ret' = ret
    /\ err' = [err EXCEPT ![p] = NoErr]
    /\ UNCHANGED <<provider, calls, op, names, idx, sources, trace>>

\* a goroutine calls p.KubeClient() itself
CallKubeClient(p) ==
    /\ pc[p] = "idle"
    /\ calls < MaxCalls
    /\ calls' = calls + 1
    /\ op' = [op EXCEPT ![p] = "KubeClient"]
    /\ pc' = [pc EXCEPT ![p] = "KubeClient"]
    /\ names' = [names EXCEPT ![p] = <<>>]
    /\ trace' = [trace EXCEPT ![p] = <<>>]
    /\ ret' = [ret EXCEPT ![p] = NoReturn]
    /\ UNCHANGED <<provider, idx, sources, err, kc>>

----------------------------------------------------------------------------
(* BuildWithConfig and ByNames *)

\* the switch with a default case that builds the nginx source
RegistryDefault(name) ==
    CASE name = "ingress-gce" -> "NewIngressGCESource"
      [] OTHER -> "NewIngressNginxSource"

\* lines 60-73: the switch; the constructor a name is dispatched to
Registry(name) ==
    CASE name = "ingress-nginx" -> "NewIngressNginxSource"
      [] name = "ingress-gce" -> "NewIngressGCESource"
      [] OTHER -> "none"

\* line 74: errors.New("source not found")
ErrSourceNotFound(name) == [type |-> "source not found", name |-> "", cause |-> ""]

\* lines 66, 72 passing a nil client instead of the one KubeClient returned
ConstructNilClient(ctor, c, n, seq) ==
    {[source |-> Adapter(ctor, NilClient, n, seq), err |-> NoErr]}
        \cup {[source |-> NilSource, err |-> CtorErr(cause)] : cause \in CtorCauses}

\* lines 66, 72 passing the empty namespace instead of cfg.Namespace
ConstructAllNamespaces(ctor, c, n, seq) ==
    {[source |-> Adapter(ctor, c, "", seq), err |-> NoErr]}
        \cup {[source |-> NilSource, err |-> CtorErr(cause)] : cause \in CtorCauses}

\* lines 66, 72: NewIngressNginxSource / NewIngressGCESource (client, namespace):
\* the adapter, or the constructor's error
Construct(ctor, c, n, seq) ==
    {[source |-> Adapter(ctor, c, n, seq), err |-> NoErr]}
        \cup {[source |-> NilSource, err |-> CtorErr(cause)] : cause \in CtorCauses}

\* line 50 written `return sources, err`: the adapters built so far escape
ByNamesErrorPartial(srcs, e) ==
    [op |-> "ByNames", client |-> NilClient, err |-> e, list |-> Slice(srcs)]

\* line 50 written `return nil, errors.New("resolving sources failed")`: the
\* cause is dropped
ByNamesErrorOpaque(srcs, e) ==
    [op |-> "ByNames", client |-> NilClient, list |-> NilSlice,
     err |-> [type |-> "resolving sources failed", name |-> "", cause |-> ""]]

\* line 50: return nil, err
ByNamesError(srcs, e) ==
    [op |-> "ByNames", client |-> NilClient, err |-> e, list |-> NilSlice]

\* line 46 written `var sources []Source`: no name leaves the nil slice
ByNamesSourcesNil(srcs) ==
    [op |-> "ByNames", client |-> NilClient, err |-> NoErr,
     list |-> IF srcs = <<>> THEN NilSlice ELSE Slice(srcs)]

\* line 55: return sources, nil
ByNamesSources(srcs) ==
    [op |-> "ByNames", client |-> NilClient, err |-> NoErr, list |-> Slice(srcs)]

\* line 52 putting the new source in front of the slice
PrependSource(srcs, source) == <<source>> \o srcs

\* line 52: sources = append(sources, source)
AppendSource(srcs, source) == Append(srcs, source)

\* lines 49-51 written `continue`: a failed name is skipped, the loop goes on
ByNamesCheckContinue(p, source, e) ==
    /\ sources' = [sources EXCEPT ![p] =
                      IF e # NoErr THEN sources[p] ELSE AppendSource(sources[p], source)]
    /\ idx' = [idx EXCEPT ![p] = idx[p] + 1]
    /\ pc' = [pc EXCEPT ![p] = "ByNames.range"]
    /\ ret' = ret

\* lines 48-52: what ByNames does with the (source, err) BuildWithConfig returned
ByNamesCheck(p, source, e) ==
    IF e # NoErr
    THEN /\ ret' = [ret EXCEPT ![p] = ByNamesError(sources[p], e)]
         /\ pc' = [pc EXCEPT ![p] = "idle"]
         /\ sources' = [sources EXCEPT ![p] = <<>>]
         /\ idx' = [idx EXCEPT ![p] = 0]
    ELSE /\ sources' = [sources EXCEPT ![p] = AppendSource(sources[p], source)]
         /\ idx' = [idx EXCEPT ![p] = idx[p] + 1]
         /\ pc' = [pc EXCEPT ![p] = "ByNames.range"]
         /\ ret' = ret

\* a goroutine calls ByNames(p, list, cfg); line 46
CallByNames(p) ==
    /\ p = Resolver
    /\ pc[p] = "idle"
    /\ calls < MaxCalls
    /\ calls' = calls + 1
    /\ \E list \in NameLists : names' = [names EXCEPT ![p] = list]
    /\ op' = [op EXCEPT ![p] = "ByNames"]
    /\ idx' = [idx EXCEPT ![p] = 1]
    /\ sources' = [sources EXCEPT ![p] = <<>>]
    /\ trace' = [trace EXCEPT ![p] = <<>>]
    /\ ret' = [ret EXCEPT ![p] = NoReturn]
    /\ pc' = [pc EXCEPT ![p] = "ByNames.range"]
    /\ UNCHANGED <<provider, err, kc>>

\* lines 47, 55: the range is exhausted
ByNamesReturn(p) ==
    /\ pc[p] = "ByNames.range"
    /\ idx[p] > Len(names[p])
    /\ ret' = [ret EXCEPT ![p] = ByNamesSources(sources[p])]
    /\ pc' = [pc EXCEPT ![p] = "idle"]
    /\ sources' = [sources EXCEPT ![p] = <<>>]
    /\ idx' = [idx EXCEPT ![p] = 0]
    /\ UNCHANGED <<provider, calls, op, names, err, kc, trace>>

\* BuildWithConfig with a cache of adapters by name: a name met before in the
\* call gets the adapter built for it then
BuildWithConfigCached(p) ==
    /\ pc[p] = "ByNames.range"
    /\ idx[p] <= Len(names[p])
    /\ LET name == names[p][idx[p]]
           call == Event("KubeClient", idx[p], name, NilClient, "", NoErr)
           lookup(e) == Event("lookup", idx[p], name, NilClient, "", e)
           earlier == {k \in 1..Len(sources[p]) : names[p][k] = name}
       IN  IF earlier # {}
           THEN /\ trace' = [trace EXCEPT ![p] = Append(trace[p], lookup(NoErr))]
                /\ sources' = [sources EXCEPT ![p] =
                                  Append(sources[p], sources[p][CHOOSE k \in earlier : TRUE])]
                /\ idx' = [idx EXCEPT ![p] = idx[p] + 1]
                /\ UNCHANGED <<pc, ret>>
           ELSE IF Registry(name) # "none"
           THEN /\ trace' = [trace EXCEPT ![p] = trace[p] \o <<lookup(NoErr), call>>]
                /\ pc' = [pc EXCEPT ![p] = "KubeClient"]
                /\ UNCHANGED <<sources, idx, ret>>
           ELSE /\ trace' = [trace EXCEPT ![p] =
                                Append(trace[p], lookup(ErrSourceNotFound(name)))]
                /\ ret' = [ret EXCEPT ![p] = ByNamesError(sources[p], ErrSourceNotFound(name))]
                /\ pc' = [pc EXCEPT ![p] = "idle"]
                /\ sources' = [sources EXCEPT ![p] = <<>>]
                /\ idx' = [idx EXCEPT ![p] = 0]
    /\ UNCHANGED <<provider, calls, op, names, err, kc>>

\* BuildWithConfig obtaining the client before it switches on the name
BuildWithConfigClientFirst(p) ==
    /\ pc[p] = "ByNames.range"
    /\ idx[p] <= Len(names[p])
    /\ LET name == names[p][idx[p]]
       IN  trace' = [trace EXCEPT ![p] = trace[p] \o
                        <<Event("KubeClient", idx[p], name, NilClient, "", NoErr),
                          Event("lookup", idx[p], name, NilClient, "", NoErr)>>]
    /\ pc' = [pc EXCEPT ![p] = "KubeClient"]
    /\ UNCHANGED <<provider, calls, op, names, idx, sources, err, kc, ret>>

\* lines 47-48, 60-62, 67-68, 74: the next name is switched on; a known name
\* calls p.KubeClient(), any other returns the not-found error to ByNames
BuildWithConfigSwitch(p) ==
    /\ pc[p] = "ByNames.range"
    /\ idx[p] <= Len(names[p])
    /\ LET name == names[p][idx[p]]
           call == Event("KubeClient", idx[p], name, NilClient, "", NoErr)
           lookup(e) == Event("lookup", idx[p], name, NilClient, "", e)
       IN  IF Registry(name) # "none"
           THEN /\ trace' = [trace EXCEPT ![p] = trace[p] \o <<lookup(NoErr), call>>]
                /\ pc' = [pc EXCEPT ![p] = "KubeClient"]
                /\ UNCHANGED <<sources, idx, ret>>
           ELSE /\ trace' = [trace EXCEPT ![p] =
                                Append(trace[p], lookup(ErrSourceNotFound(name)))]
                /\ ByNamesCheck(p, NilSource, ErrSourceNotFound(name))
    /\ UNCHANGED <<provider, calls, op, names, err, kc>>

Constructed(tr) == Cardinality({k \in 1..Len(tr) : tr[k].ev = "constructor"})

\* lines 63-66, 69-72: p.KubeClient() has returned; its error is returned,
\* otherwise the constructor is called with the client and cfg.Namespace
BuildWithConfigClient(p) ==
    /\ pc[p] = "BuildWithConfig.client"
    /\ LET name == names[p][idx[p]]
           got == Event("KubeClient.return", idx[p], name, kc[p].client, "", kc[p].err)
           made(e) == Event("constructor", idx[p], name, kc[p].client, cfg, e)
       IN  IF kc[p].err # NoErr
           THEN /\ trace' = [trace EXCEPT ![p] = Append(trace[p], got)]
                /\ ByNamesCheck(p, NilSource, kc[p].err)
           ELSE \E o \in Construct(Registry(name), kc[p].client, cfg,
                                   Constructed(trace[p]) + 1) :
                   /\ trace' = [trace EXCEPT ![p] = trace[p] \o <<got, made(o.err)>>]
                   /\ ByNamesCheck(p, o.source, o.err)
    /\ kc' = [kc EXCEPT ![p] = NoKC]
    /\ UNCHANGED <<provider, calls, op, names, err>>

----------------------------------------------------------------------------

Next ==
    \E p \in Procs :
        \/ CallKubeClient(p)
        \/ CallByNames(p)
        \/ KubeClientEnter(p)
        \/ OnceLock(p)
        \/ OnceSkip(p)
        \/ OnceRun(p)
        \/ AssignClient(p)
        \/ OnceStore(p)
        \/ OnceUnlock(p)
        \/ KubeClientReturn(p)
        \/ ByNamesReturn(p)
        \/ BuildWithConfigSwitch(p)
        \/ BuildWithConfigClient(p)

Spec == Init /\ [][Next]_vars

\* the steps of goroutine p inside p.KubeClient(), but for the return of
\* NewKubeClient, which waits on credential and network I/O
Step(p) ==
    \/ KubeClientEnter(p)
    \/ OnceLock(p)
    \/ OnceSkip(p)
    \/ OnceRun(p)
    \/ OnceStore(p)
    \/ OnceUnlock(p)
    \/ KubeClientReturn(p)

\* the generator alone: goroutines that call p.KubeClient() directly
NextKubeClient ==
    \E p \in Procs : CallKubeClient(p) \/ Step(p) \/ AssignClient(p)

\* the Go scheduler runs every goroutine that can take a step, and (the
\* hypothesis of the termination claim) a NewKubeClient that was started
\* returns; nothing is assumed of callers starting calls
FairSpec ==
    /\ Init
    /\ [][NextKubeClient]_vars
    /\ \A p \in Procs : WF_vars(Step(p)) /\ WF_vars(AssignClient(p))

----------------------------------------------------------------------------
(* What the calls returned *)

\* the (client, err) pairs returned by the KubeClient calls that have
\* returned: to a goroutine that called it directly, to BuildWithConfig just
\* now, and to BuildWithConfig earlier in the ByNames call still on record
KubeClientReturns ==
    {[client |-> ret[p].client, err |-> ret[p].err] :
        p \in {q \in Procs : ret[q].op = "KubeClient"}}
    \cup {[client |-> kc[p].client, err |-> kc[p].err] :
        p \in {q \in Procs : kc[q].set}}
    \cup UNION {{[client |-> trace[p][k].client, err |-> trace[p][k].err] :
                    k \in {j \in 1..Len(trace[p]) : trace[p][j].ev = "KubeClient.return"}} :
                p \in Procs}

\* goroutines whose direct KubeClient call has returned
DirectReturned == {p \in Procs : ret[p].op = "KubeClient"}

Failed == attempts # <<>> /\ attempts[1].err # NoErr
Ready == attempts # <<>> /\ attempts[1].err = NoErr

----------------------------------------------------------------------------
(* Claims *)

\* C1: for one SingletonClientGenerator and any number of KubeClient calls,
\* in any interleaving, NewKubeClient is executed exactly once: never more
\* than once, and once as soon as any call has returned.
C1_NewKubeClientOnce ==
    /\ newCalls <= 1
    /\ Len(attempts) <= newCalls
    /\ KubeClientReturns # {} => (newCalls = 1 /\ Len(attempts) = 1)

\* C1 witness: two direct calls have returned on a provider whose attempt failed
C1_Witness ==
    /\ Cardinality(DirectReturned) >= 2
    /\ Failed
    /\ newCalls = 1

\* C2: if the construction attempt failed with error E, every KubeClient
\* call that returns, the triggering one, a concurrent one or a later one,
\* returns that same error E (never a nil error).
C2_SameErrorToAll ==
    Failed => \A r \in KubeClientReturns : r.err = attempts[1].err

\* C3: if the construction attempt succeeded with handle H, every KubeClient
\* call that returns, concurrent with the attempt or after it, returns H
\* with a nil error.
C3_SameHandleToAll ==
    Ready => /\ attempts[1].client.tag = "clientset"
             /\ \A r \in KubeClientReturns :
                   r.client = attempts[1].client /\ r.err = NoErr

\* C3 witness: two direct calls have returned on a Ready provider
C3_Witness ==
    /\ Ready
    /\ Cardinality(DirectReturned) >= 2
    /\ \A p \in DirectReturned : ret[p].client = attempts[1].client

\* positions of trace[p] that hold an event of kind ev
EventsOf(p, ev) == {j \in 1..Len(trace[p]) : trace[p][j].ev = ev}

\* goroutines whose ByNames call has returned
Resolved == {p \in Procs : ret[p].op = "ByNames"}

\* C4: no adapter constructor is ever invoked with a client that is not the
\* Ready handle of the provider; on a provider whose construction failed,
\* every ByNames call with a non-empty list of known names returns the
\* connection error and constructs no adapter.
C4_AdaptersOnlyFromReadyHandle ==
    \A p \in Procs :
        /\ \A j \in EventsOf(p, "constructor") :
              Ready /\ trace[p][j].client = attempts[1].client
        /\ ( /\ Failed
             /\ p \in Resolved
             /\ names[p] # <<>>
             /\ \A i \in 1..Len(names[p]) : names[p][i] \in KnownNames )
           => (ret[p].err = attempts[1].err /\ EventsOf(p, "constructor") = {})

\* C5: every ByNames call returns either a non-nil error with the nil list,
\* or a nil error with a complete list (one adapter per name); never an
\* error together with the adapters built before the failing position.
C5_AllOrNothing ==
    \A p \in Resolved :
        \/ ret[p].err # NoErr /\ ret[p].list = NilSlice
        \/ /\ ret[p].err = NoErr
           /\ ~ret[p].list.isNil
           /\ Len(ret[p].list.items) = Len(names[p])
           /\ \A i \in 1..Len(names[p]) : ret[p].list.items[i] # NilSource

\* C5 witness: a call failed at a position after one whose adapter was built
C5_Witness ==
    \E p \in Resolved :
        /\ ret[p].err # NoErr
        /\ \E j \in EventsOf(p, "constructor") : trace[p][j].err = NoErr

\* C6: a successful ByNames(L) with L non-empty returns exactly Len(L)
\* adapters, the one at position i built by the constructor registered for
\* L[i] (by the call's i-th constructor invocation).
C6_OrderPreserved ==
    \A p \in Resolved :
        (ret[p].err = NoErr /\ names[p] # <<>>) =>
            /\ Len(ret[p].list.items) = Len(names[p])
            /\ \A i \in 1..Len(names[p]) :
                  /\ names[p][i] \in KnownNames
                  /\ ret[p].list.items[i].ctor = Registry(names[p][i])
                  /\ ret[p].list.items[i].seq = i

\* C6 witness: a successful call on two different names
C6_Witness ==
    \E p \in Resolved :
        /\ ret[p].err = NoErr
        /\ Len(names[p]) = 2
        /\ names[p][1] # names[p][2]

\* C7: within one ByNames call, once the name at position k has failed (its
\* lookup, its KubeClient call or its constructor), nothing is done for any
\* later position: the failure is the last event of the call, and the call
\* has returned that very error.
C7_FailFast ==
    \A p \in Procs :
        \A j \in 1..Len(trace[p]) :
            trace[p][j].err # NoErr =>
                /\ j = Len(trace[p])
                /\ \A i \in 1..Len(trace[p]) : trace[p][i].pos <= trace[p][j].pos
                /\ pc[p] = "idle"
                /\ p \in Resolved
                /\ ret[p].err = trace[p][j].err

\* C7 witness: a call on two names has failed at the first
C7_Witness ==
    \E p \in Resolved :
        /\ Len(names[p]) = 2
        /\ \E j \in 1..Len(trace[p]) : trace[p][j].err # NoErr /\ trace[p][j].pos = 1

\* C8 as stated: resolving a name the registry does not know fails with an
\* unknown-source error that carries that exact name; when such a name is
\* first in the list no adapter constructor is invoked in the call.
C8_UnknownNameCarried ==
    \A p \in Procs :
        \A j \in EventsOf(p, "lookup") :
            trace[p][j].name \notin KnownNames =>
                /\ trace[p][j].err.type = "source not found"
                /\ trace[p][j].err.name = trace[p][j].name
                /\ trace[p][j].pos = 1 => EventsOf(p, "constructor") = {}

\* C8 amended: resolving a name the registry does not know fails with the
\* one fixed error "source not found", which names no source; the call
\* returns it with the nil list, and when such a name is first in the list
\* neither KubeClient nor any adapter constructor is invoked in the call.
C8_UnknownNameRejected ==
    \A p \in Procs :
        \A j \in EventsOf(p, "lookup") :
            trace[p][j].name \notin KnownNames =>
                /\ trace[p][j].err = [type |-> "source not found", name |-> "", cause |-> ""]
                /\ p \in Resolved
                /\ ret[p].err = trace[p][j].err
                /\ ret[p].list = NilSlice
                /\ trace[p][j].pos = 1 =>
                      (EventsOf(p, "constructor") = {} /\ EventsOf(p, "KubeClient") = {})

\* C8 witness: a call on two names, the first unknown and the second known
C8_Witness ==
    \E p \in Resolved :
        /\ Len(names[p]) = 2
        /\ names[p][1] \notin KnownNames
        /\ names[p][2] \in KnownNames
        /\ ret[p].err.type = "source not found"

\* C9: ByNames on the empty list returns an empty, non-nil list with a nil
\* error and never calls KubeClient; when it is the only call made so far,
\* the provider is still Uninitialized.
C9_EmptyList ==
    \A p \in Procs :
        (op[p] = "ByNames" /\ names[p] = <<>>) =>
            /\ pc[p] \in {"ByNames.range", "idle"}
            /\ trace[p] = <<>>
            /\ pc[p] = "idle" =>
                  (ret[p].err = NoErr /\ ~ret[p].list.isNil /\ ret[p].list.items = <<>>)
            /\ calls = 1 =>
                  (newCalls = 0 /\ ~done /\ m = NoProc /\ client = NilClient /\ attempts = <<>>)

\* C9 witness: the first call of a behaviour was ByNames on the empty list
C9_Witness ==
    \E p \in Resolved : names[p] = <<>> /\ calls = 1 /\ newCalls = 0

\* C10 as stated: for a non-empty list ByNames obtains the client before any
\* name is looked up, and when obtaining the client fails it returns that
\* error with no name looked up, also when the first name is unknown.
C10_ClientBeforeLookup ==
    \A p \in Procs :
        /\ \A j \in EventsOf(p, "lookup") :
              \E i \in EventsOf(p, "KubeClient") : i < j
        /\ \A j \in EventsOf(p, "KubeClient.return") :
              trace[p][j].err # NoErr => EventsOf(p, "lookup") = {}

\* C10 amended: ByNames looks a name up before it obtains the client for it.
\* KubeClient is called once for each known name reached, right after that
\* name's successful lookup, and never for an unknown name; when that call
\* returns an error, ByNames returns it with no constructor invoked for that
\* position and nothing done for a later one; when the first name is
\* unknown, ByNames returns "source not found" without calling KubeClient.
C10_LookupBeforeClient ==
    \A p \in Procs :
        /\ \A j \in EventsOf(p, "lookup") :
              trace[p][j].err = NoErr =>
                  (j < Len(trace[p]) /\ trace[p][j + 1].ev = "KubeClient")
        /\ \A j \in EventsOf(p, "KubeClient") :
              /\ j > 1
              /\ trace[p][j - 1].ev = "lookup"
              /\ trace[p][j - 1].pos = trace[p][j].pos
              /\ trace[p][j - 1].err = NoErr
              /\ trace[p][j].name \in KnownNames
        /\ \A j \in EventsOf(p, "KubeClient.return") :
              trace[p][j].err # NoErr =>
                  /\ j = Len(trace[p])
                  /\ p \in Resolved
                  /\ ret[p].err = trace[p][j].err
                  /\ ret[p].list = NilSlice
        /\ (p \in Resolved /\ names[p] # <<>> /\ names[p][1] \notin KnownNames) =>
              /\ EventsOf(p, "KubeClient") = {}
              /\ ret[p].err.type = "source not found"

\* C10 witness: the KubeClient call for the first name ran the construction
\* attempt, which failed, and ByNames returned its error
C10_Witness ==
    \E p \in Resolved :
        /\ \E j \in EventsOf(p, "KubeClient.return") :
              trace[p][j].pos = 1 /\ trace[p][j].err.type = "connection"
        /\ ret[p].err.type = "connection"

\* C11: all adapters of one successful ByNames call are built with the
\* identical client handle and the identical namespace cfg.Namespace; names
\* <<"ingress-nginx", "ingress-gce">> with namespace "prod" give the nginx
\* adapter, then the gce adapter, both bound to "prod" and to one handle.
C11_SharedHandleAndNamespace ==
    \A p \in Resolved :
        ret[p].err = NoErr =>
            LET items == ret[p].list.items
            IN  /\ \A i, j \in 1..Len(items) :
                      /\ items[i].client = items[j].client
                      /\ items[i].namespace = cfg
                /\ \A j \in EventsOf(p, "constructor") :
                      /\ trace[p][j].namespace = cfg
                      /\ trace[p][j].client = items[trace[p][j].pos].client
                /\ (names[p] = <<"ingress-nginx", "ingress-gce">> /\ cfg = "prod") =>
                      /\ Len(items) = 2
                      /\ items[1].ctor = "NewIngressNginxSource"
                      /\ items[2].ctor = "NewIngressGCESource"
                      /\ items[1].namespace = "prod" /\ items[2].namespace = "prod"
                      /\ items[1].client = items[2].client

\* C11 witness: the scenario, on a provider whose client was built
C11_Witness ==
    \E p \in Resolved :
        /\ ret[p].err = NoErr
        /\ names[p] = <<"ingress-nginx", "ingress-gce">>
        /\ cfg = "prod"
        /\ Ready
        /\ ret[p].list.items[1].client = attempts[1].client

\* C12: given an explicit non-empty credential path P, NewKubeClient hands P
\* itself to configuration building whether or not the default file exists
\* (it does not even probe the default); when P is not on disk, construction
\* fails with the connection error of configuration building.
C12_ExplicitPathWins ==
    \A k \in 1..Len(attempts) :
        attempts[k].given # "" =>
            /\ attempts[k].path = attempts[k].given
            /\ ~attempts[k].probed
            /\ attempts[k].given \notin files =>
                  /\ attempts[k].err.type = "connection"
                  /\ attempts[k].client.tag # "clientset"

\* C12 witness: an attempt with an explicit path that is not on disk, while
\* the default file is
C12_Witness ==
    /\ attempts # <<>>
    /\ attempts[1].given = ExplicitFile
    /\ ExplicitFile \notin files
    /\ RecommendedHomeFile \in files
    /\ attempts[1].err = ConfigErr

\* C13 as stated: when the constructor registered for name n fails with
\* cause c, the resolver returns an adapter-construction error that carries
\* both the name n and the cause c.
C13_ConstructorErrorWrapped ==
    \A p \in Procs :
        \A j \in EventsOf(p, "constructor") :
            trace[p][j].err # NoErr =>
                /\ p \in Resolved
                /\ ret[p].err.cause = trace[p][j].err.cause
                /\ ret[p].err.name = trace[p][j].name

\* C13 amended: when the constructor registered for name n fails with cause
\* c, the resolver returns the constructor's own error value unchanged, with
\* no list: the cause c is never swallowed, but the error is not wrapped and
\* the name n is not added to it.
C13_ConstructorErrorVerbatim ==
    \A p \in Procs :
        \A j \in EventsOf(p, "constructor") :
            trace[p][j].err # NoErr =>
                /\ p \in Resolved
                /\ ret[p].err = trace[p][j].err
                /\ ret[p].err.type = "constructor"
                /\ ret[p].err.cause \in CtorCauses
                /\ ret[p].err.name = ""
                /\ ret[p].list = NilSlice

\* C13 witness: the constructor of the second name failed
C13_Witness ==
    \E p \in Resolved :
        \E j \in EventsOf(p, "constructor") :
            /\ trace[p][j].pos = 2
            /\ trace[p][j].err # NoErr
            /\ ret[p].err.cause = "constructor-failed"

\* C14: no KubeClient call returns while the construction attempt is still
\* running: a call that arrives during initialization returns only after
\* the attempt has completed, so what any call returns is the client field
\* as the attempt assigned it, never the field before the assignment.
C14_NoReturnDuringInit ==
    /\ (\E p \in Procs : pc[p] = "NewKubeClient") =>
          /\ KubeClientReturns = {}
          /\ \A q \in Procs : pc[q] \notin {"KubeClient.return", "BuildWithConfig.client"}
    /\ \A q \in Procs :
          pc[q] = "KubeClient.return" =>
              (attempts # <<>> /\ client = attempts[Len(attempts)].client)
    /\ \A r \in KubeClientReturns : attempts # <<>> /\ r.client = attempts[1].client

\* C14 witness: a call that entered Once.Do before the done flag was set and
\* waited for the mutex holds it now that the attempt is over
C14_Witness ==
    \E q \in Procs : pc[q] = "Once.check" /\ done /\ attempts # <<>>

\* the provider's state, read off the SingletonClientGenerator: an attempt is
\* running, or p.client holds a clientset, or it holds the nil clientset a
\* failed attempt left, or it still has its zero value
ProviderState ==
    IF \E p \in Procs : pc[p] = "NewKubeClient" THEN "Initializing"
    ELSE IF client.tag = "clientset" THEN "Ready"
    ELSE IF client.tag = "nilClientset" THEN "Failed"
    ELSE "Uninitialized"

InKubeClient ==
    {"KubeClient", "Once.lock", "Once.check", "NewKubeClient", "Once.store",
     "Once.unlock", "KubeClient.return"}

\* C16: under fair scheduling, if the NewKubeClient attempt terminates (both
\* stated by FairSpec), every KubeClient call that was started eventually
\* returns: no set of concurrent callers deadlocks on the once-guard.
C16_CallsReturn ==
    \A p \in Procs : (pc[p] \in InKubeClient) ~> (pc[p] \notin InKubeClient)

\* C16 witness: a caller waits for the mutex of the once-guard while another
\* goroutine runs the attempt
C16_Witness ==
    \E p, q \in Procs : pc[p] = "Once.lock" /\ pc[q] = "NewKubeClient" /\ m = q

\* C17 as stated: one ByNames call on a non-empty list invokes KubeClient
\* exactly once, however many names the list holds, and every constructor of
\* the call gets the handle that one call returned.
C17_OneKubeClientCall ==
    \A p \in Resolved :
        names[p] # <<>> =>
            /\ Cardinality(EventsOf(p, "KubeClient")) = 1
            /\ \A j \in EventsOf(p, "constructor") :
                  \A k \in EventsOf(p, "KubeClient.return") :
                      trace[p][j].client = trace[p][k].client

\* C17 amended: one ByNames call invokes KubeClient once for every known
\* name it reaches (once per name of the list when it succeeds, never for
\* an unknown name), and each constructor gets the handle returned by the
\* KubeClient call made for its own name; the adapter keeps that handle.
C17_KubeClientPerName ==
    \A p \in Procs :
        /\ Cardinality(EventsOf(p, "KubeClient")) =
              Cardinality({j \in EventsOf(p, "lookup") : trace[p][j].err = NoErr})
        /\ \A j \in EventsOf(p, "KubeClient") :
              /\ trace[p][j].name \in KnownNames
              /\ \A k \in EventsOf(p, "KubeClient") :
                    trace[p][k].pos = trace[p][j].pos => k = j
        /\ \A j \in EventsOf(p, "constructor") :
              /\ j > 1
              /\ trace[p][j - 1].ev = "KubeClient.return"
              /\ trace[p][j - 1].pos = trace[p][j].pos
              /\ trace[p][j - 1].err = NoErr
              /\ trace[p][j - 1].client = trace[p][j].client
        /\ (p \in Resolved /\ ret[p].err = NoErr) =>
              /\ Cardinality(EventsOf(p, "KubeClient")) = Len(names[p])
              /\ \A j \in EventsOf(p, "constructor") :
                    ret[p].list.items[trace[p][j].pos].client = trace[p][j].client

\* C17 witness: a successful call on two names made two KubeClient calls
C17_Witness ==
    \E p \in Resolved :
        /\ ret[p].err = NoErr
        /\ Len(names[p]) = 2
        /\ Cardinality(EventsOf(p, "KubeClient")) = 2

\* C18: adapters are never cached: a successful ByNames call on n names
\* invokes exactly n constructors, one for each position, so a name that
\* occurs twice is constructed twice and its two positions hold the adapters
\* of two different constructor invocations.
C18_NoCaching ==
    \A p \in Resolved :
        ret[p].err = NoErr =>
            /\ Cardinality(EventsOf(p, "constructor")) = Len(names[p])
            /\ \A i \in 1..Len(names[p]) :
                  /\ Cardinality({j \in EventsOf(p, "constructor") : trace[p][j].pos = i}) = 1
                  /\ ret[p].list.items[i].seq = i
            /\ \A i, k \in 1..Len(names[p]) :
                  i # k => ret[p].list.items[i].seq # ret[p].list.items[k].seq

\* C18 witness: a successful call on the same name twice
C18_Witness ==
    \E p \in Resolved :
        /\ ret[p].err = NoErr
        /\ Len(names[p]) = 2
        /\ names[p][1] = names[p][2]
        /\ ret[p].list.items[1].seq = 1
        /\ ret[p].list.items[2].seq = 2

\* C19: the credential path NewKubeClient hands to configuration building is
\* the given path when that is non-empty, otherwise the default location when
\* that file exists, otherwise the empty path; the default location is
\* probed only when the given path is empty.
C19_CredentialPath ==
    \A k \in 1..Len(attempts) :
        /\ attempts[k].given = KubeConfig
        /\ attempts[k].path =
              IF attempts[k].given # "" THEN attempts[k].given
              ELSE IF RecommendedHomeFile \in files THEN RecommendedHomeFile
              ELSE ""
        /\ attempts[k].probed <=> attempts[k].given = ""

\* C19 witness: no path was given, the default file exists, and the attempt
\* probed it and handed it to configuration building
C19_Witness ==
    /\ attempts # <<>>
    /\ attempts[1].given = ""
    /\ RecommendedHomeFile \in files
    /\ attempts[1].path = RecommendedHomeFile
    /\ attempts[1].probed

====
